---- MODULE Spec2Model ----
(***************************************************************************)
(* Model of the packaging advisor's engine (src/packaging_app.py):         *)
(* attribute inference (get_auto_parameters), saving of a product          *)
(* (save_product_page), the compatibility scorer                           *)
(* (calculate_packaging_score), the rule bonus engine                      *)
(* (apply_recommendation_rules), the ranker                                *)
(* (get_packaging_recommendations) with its explanations                   *)
(* (generate_recommendation_reasons), and the catalog file as one running  *)
(* process reads and writes it (load_database, save_database, main).       *)
(*                                                                         *)
(* Python values are modelled as follows.  A str that the code inspects    *)
(* character by character (a product name, a keyword, a barrier level) is  *)
(* a sequence of one-character strings; every other str is a TLA+ string.  *)
(* A dict is a function (a record when its keys are fixed strings); a dict *)
(* whose iteration order matters is a sequence of entries.  None is the    *)
(* string "None_" (the text "None" is a sensitivity level of the program). *)
(* Points are kept in tenths (the rule engine multiplies by 0.3 and 0.2),  *)
(* and a score is the exact fraction num/den.  A value that may be absent  *)
(* (the catalog file, the memoised catalog) is a set of at most one        *)
(* element.                                                                *)
(***************************************************************************)
EXTENDS Integers, Sequences, FiniteSets, TLC

VARIABLES
    db,           \* the catalog dict passed to every engine call
    user_inputs,  \* the attribute profile handed to the scorer
    call,         \* the operation that ran last, with its arguments
    ret,          \* what that operation returned
    db_file,      \* packaging_db.json: {} when absent, else { its document }
    cache         \* st.cache_data's entry for load_database: {} or { value }

vars == <<db, user_inputs, call, ret, db_file, cache>>

NoneValue == "None_"

(***************************************************************************)
(* str helpers                                                             *)
(***************************************************************************)
\* str.lower() on the letters it changes
to_lower ==
    ("A" :> "a") @@ ("B" :> "b") @@ ("C" :> "c") @@ ("D" :> "d") @@ ("E" :> "e") @@ ("F" :> "f")
    @@ ("G" :> "g") @@ ("H" :> "h") @@ ("I" :> "i") @@ ("J" :> "j") @@ ("K" :> "k") @@ ("L" :> "l")
    @@ ("M" :> "m") @@ ("N" :> "n") @@ ("O" :> "o") @@ ("P" :> "p") @@ ("Q" :> "q") @@ ("R" :> "r")
    @@ ("S" :> "s") @@ ("T" :> "t") @@ ("U" :> "u") @@ ("V" :> "v") @@ ("W" :> "w") @@ ("X" :> "x")
    @@ ("Y" :> "y") @@ ("Z" :> "z")

\* str.upper() on the letters it changes
to_upper ==
    ("a" :> "A") @@ ("b" :> "B") @@ ("c" :> "C") @@ ("d" :> "D") @@ ("e" :> "E") @@ ("f" :> "F")
    @@ ("g" :> "G") @@ ("h" :> "H") @@ ("i" :> "I") @@ ("j" :> "J") @@ ("k" :> "K") @@ ("l" :> "L")
    @@ ("m" :> "M") @@ ("n" :> "N") @@ ("o" :> "O") @@ ("p" :> "P") @@ ("q" :> "Q") @@ ("r" :> "R")
    @@ ("s" :> "S") @@ ("t" :> "T") @@ ("u" :> "U") @@ ("v" :> "V") @@ ("w" :> "W") @@ ("x" :> "X")
    @@ ("y" :> "Y") @@ ("z" :> "Z")

\* str.lower(), one character
lower_char(c) == IF c \in DOMAIN to_lower THEN to_lower[c] ELSE c

\* str.upper(), one character
upper_char(c) == IF c \in DOMAIN to_upper THEN to_upper[c] ELSE c

\* str.lower()
str_lower(s) == [i \in DOMAIN s |-> lower_char(s[i])]

\* word in s
str_contains(s, word) ==
    \E i \in 0..(Len(s) - Len(word)) : SubSeq(s, i + 1, i + Len(word)) = word

\* any(word in s for word in words)
any_word_in(words, s) == \E i \in DOMAIN words : str_contains(s, words[i])

\* d.get(key, default)
dict_get(d, key, default) == IF key \in DOMAIN d THEN d[key] ELSE default

\* d.update(other), as the dict that results
dict_update(d, other) ==
    [k \in (DOMAIN d) \cup (DOMAIN other) |->
        IF k \in DOMAIN other THEN other[k] ELSE d[k]]

\* d[key] = value on a dict that may not hold key yet
dict_set(d, key, value) ==
    [k \in (DOMAIN d) \cup {key} |-> IF k = key THEN value ELSE d[k]]

(***************************************************************************)
(* Keyword lists of get_auto_parameters                                    *)
(***************************************************************************)
beverage_words ==
    << <<"j","u","i","c","e">>,
       <<"d","r","i","n","k">>,
       <<"b","e","v","e","r","a","g","e">>,
       <<"s","o","d","a">>,
       <<"w","a","t","e","r">>,
       <<"t","e","a">>,
       <<"c","o","f","f","e","e">>,
       <<"m","i","l","k">> >>

fruit_words ==
    << <<"o","r","a","n","g","e">>,
       <<"a","p","p","l","e">>,
       <<"f","r","u","i","t">> >>

dairy_words ==
    << <<"c","h","e","e","s","e">>,
       <<"b","u","t","t","e","r">>,
       <<"y","o","g","u","r","t">>,
       <<"c","r","e","a","m">> >>

oil_words ==
    << <<"o","i","l">>,
       <<"v","i","n","e","g","a","r">>,
       <<"s","a","u","c","e">>,
       <<"h","o","n","e","y">>,
       <<"s","y","r","u","p">>,
       <<"d","r","e","s","s","i","n","g">> >>

syrup_words ==
    << <<"h","o","n","e","y">>,
       <<"s","y","r","u","p">> >>

grain_words ==
    << <<"r","i","c","e">>,
       <<"p","a","s","t","a">>,
       <<"f","l","o","u","r">>,
       <<"c","e","r","e","a","l">>,
       <<"g","r","a","i","n">>,
       <<"o","a","t","s">>,
       <<"b","r","e","a","d">> >>

snack_words ==
    << <<"c","h","i","p","s">>,
       <<"c","r","a","c","k","e","r","s">>,
       <<"c","o","o","k","i","e","s">>,
       <<"b","i","s","c","u","i","t","s">>,
       <<"n","u","t","s">>,
       <<"c","a","n","d","y">> >>

meat_words ==
    << <<"m","e","a","t">>,
       <<"c","h","i","c","k","e","n">>,
       <<"f","i","s","h">>,
       <<"b","e","e","f">>,
       <<"p","o","r","k">>,
       <<"p","r","o","t","e","i","n">> >>

frozen_words ==
    << <<"f","r","o","z","e","n">>,
       <<"i","c","e"," ","c","r","e","a","m">> >>

canned_words ==
    << <<"c","a","n","n","e","d">>,
       <<"s","o","u","p">> >>

confectionery_words ==
    << <<"c","h","o","c","o","l","a","t","e">>,
       <<"c","a","k","e">>,
       <<"j","a","m">> >>

w_milk == <<"m","i","l","k">>

w_bread == <<"b","r","e","a","d">>

w_chips == <<"c","h","i","p","s">>

w_soup == <<"s","o","u","p">>

(***************************************************************************)
(* get_auto_parameters                                                     *)
(***************************************************************************)
\* the default parameters
default_parameters(cost, shelf_life) ==
    [ product_state          |-> "Liquid",
      viscosity              |-> "Medium",
      ph_level               |-> "Neutral",
      oxygen_sensitivity     |-> "Medium",
      moisture_sensitivity   |-> "Medium",
      light_sensitivity      |-> "Medium",
      storage_temperature    |-> "Ambient",
      target_market          |-> "Consumer retail",
      industry_category      |-> "Food",
      budget_range           |-> cost,
      sustainability_priority |-> "Balanced",
      safety_requirements    |-> <<>>,
      brand_positioning      |-> "Mainstream",
      fragility_level        |-> "Moderate",
      shelf_life_requirement |-> shelf_life ]

\* a stored-product branch that lets the stored budget_range stand
stored_lookup_keeps_budget(auto_params, products, product_name, cost, shelf_life) ==
    LET stored_params == dict_get(products[product_name], "auto_parameters", <<>>)
        updated == dict_update(auto_params, stored_params)
    IN  dict_set(updated, "shelf_life_requirement", shelf_life)

\* the stored-product branch: the stored profile over the defaults, then the
\* caller's cost and shelf life
stored_lookup(auto_params, products, product_name, cost, shelf_life) ==
    LET stored_params == dict_get(products[product_name], "auto_parameters", <<>>)
        updated == dict_update(auto_params, stored_params)
    IN  dict_set(dict_set(updated, "budget_range", cost),
                 "shelf_life_requirement", shelf_life)

beverages_block(p, product_lower) ==
    LET p1 == [p EXCEPT !.product_state = "Liquid",
                        !.viscosity = "Low",
                        !.target_market = "Consumer retail"]
        p2 == IF any_word_in(fruit_words, product_lower)
              THEN [p1 EXCEPT !.oxygen_sensitivity = "High",
                              !.light_sensitivity = "High",
                              !.ph_level = "Acidic"]
              ELSE p1
    IN  IF str_contains(product_lower, w_milk)
        THEN [p2 EXCEPT !.storage_temperature = "Cold",
                        !.light_sensitivity = "High"]
        ELSE p2

dairy_block(p) ==
    [p EXCEPT !.product_state = "Semi-solid",
              !.storage_temperature = "Cold",
              !.oxygen_sensitivity = "Medium",
              !.light_sensitivity = "High",
              !.shelf_life_requirement = "Weeks"]

oils_block(p, product_lower) ==
    [p EXCEPT !.product_state = "Liquid",
              !.viscosity = IF any_word_in(syrup_words, product_lower)
                            THEN "High" ELSE "Medium",
              !.oxygen_sensitivity = "High",
              !.light_sensitivity = "High"]

grains_block(p, product_lower) ==
    LET p1 == [p EXCEPT !.product_state = "Solid",
                        !.viscosity = "N/A",
                        !.moisture_sensitivity = "High",
                        !.oxygen_sensitivity = "Low",
                        !.storage_temperature = "Ambient"]
    IN  IF str_contains(product_lower, w_bread)
        THEN [p1 EXCEPT !.fragility_level = "Fragile",
                        !.shelf_life_requirement = "Days"]
        ELSE p1

snacks_block(p, product_lower) ==
    [p EXCEPT !.product_state = "Solid",
              !.viscosity = "N/A",
              !.fragility_level = IF str_contains(product_lower, w_chips)
                                  THEN "Very Fragile" ELSE "Fragile",
              !.oxygen_sensitivity = "High",
              !.moisture_sensitivity = "High"]

meat_block(p) ==
    [p EXCEPT !.product_state = "Solid",
              !.storage_temperature = "Cold",
              !.oxygen_sensitivity = "High",
              !.shelf_life_requirement = "Days",
              !.safety_requirements = <<"Sterile">>]

frozen_block(p) ==
    [p EXCEPT !.storage_temperature = "Frozen",
              !.oxygen_sensitivity = "High",
              !.moisture_sensitivity = "High"]

canned_block(p, product_lower) ==
    [p EXCEPT !.product_state = IF str_contains(product_lower, w_soup)
                                THEN "Liquid" ELSE "Semi-solid",
              !.oxygen_sensitivity = "None",
              !.moisture_sensitivity = "None",
              !.shelf_life_requirement = "Years"]

confectionery_block(p) ==
    [p EXCEPT !.product_state = "Solid",
              !.moisture_sensitivity = "High",
              !.light_sensitivity = "High",
              !.brand_positioning = "Premium"]

\* a chain in which the frozen test is an `if`, not an `elif`
category_blocks_fallthrough(auto_params, product_lower) ==
    LET first ==
            IF any_word_in(beverage_words, product_lower)
            THEN beverages_block(auto_params, product_lower)
            ELSE IF any_word_in(dairy_words, product_lower)
            THEN dairy_block(auto_params)
            ELSE IF any_word_in(oil_words, product_lower)
            THEN oils_block(auto_params, product_lower)
            ELSE IF any_word_in(grain_words, product_lower)
            THEN grains_block(auto_params, product_lower)
            ELSE IF any_word_in(snack_words, product_lower)
            THEN snacks_block(auto_params, product_lower)
            ELSE IF any_word_in(meat_words, product_lower)
            THEN meat_block(auto_params)
            ELSE auto_params
    IN  IF any_word_in(frozen_words, product_lower)
        THEN frozen_block(first)
        ELSE IF any_word_in(canned_words, product_lower)
        THEN canned_block(first, product_lower)
        ELSE IF any_word_in(confectionery_words, product_lower)
        THEN confectionery_block(first)
        ELSE first

\* the if / elif chain over the categories
category_blocks(auto_params, product_lower) ==
    IF any_word_in(beverage_words, product_lower)
    THEN beverages_block(auto_params, product_lower)
    ELSE IF any_word_in(dairy_words, product_lower)
    THEN dairy_block(auto_params)
    ELSE IF any_word_in(oil_words, product_lower)
    THEN oils_block(auto_params, product_lower)
    ELSE IF any_word_in(grain_words, product_lower)
    THEN grains_block(auto_params, product_lower)
    ELSE IF any_word_in(snack_words, product_lower)
    THEN snacks_block(auto_params, product_lower)
    ELSE IF any_word_in(meat_words, product_lower)
    THEN meat_block(auto_params)
    ELSE IF any_word_in(frozen_words, product_lower)
    THEN frozen_block(auto_params)
    ELSE IF any_word_in(canned_words, product_lower)
    THEN canned_block(auto_params, product_lower)
    ELSE IF any_word_in(confectionery_words, product_lower)
    THEN confectionery_block(auto_params)
    ELSE auto_params

\* a cost adjustment whose Economy branch forgets brand_positioning
cost_adjust_economy_keeps_brand(p, cost) ==
    IF cost = "Premium"
    THEN [p EXCEPT !.brand_positioning = "Premium",
                   !.sustainability_priority = "Balanced"]
    ELSE IF cost = "Economy"
    THEN [p EXCEPT !.sustainability_priority = "Cost focused"]
    ELSE p

\* "Purpose and cost adjustments"
cost_adjust(p, cost) ==
    IF cost = "Premium"
    THEN [p EXCEPT !.brand_positioning = "Premium",
                   !.sustainability_priority = "Balanced"]
    ELSE IF cost = "Economy"
    THEN [p EXCEPT !.brand_positioning = "Value",
                   !.sustainability_priority = "Cost focused"]
    ELSE p

\* a shelf-life adjustment that tests for "Years" alone
shelf_life_adjust_years_only(p, shelf_life) ==
    IF shelf_life \in {"Years"}
    THEN [p EXCEPT !.oxygen_sensitivity = "High",
                   !.moisture_sensitivity = "High"]
    ELSE p

\* if shelf_life in ["Months", "Years"]
shelf_life_adjust(p, shelf_life) ==
    IF shelf_life \in {"Months", "Years"}
    THEN [p EXCEPT !.oxygen_sensitivity = "High",
                   !.moisture_sensitivity = "High"]
    ELSE p

get_auto_parameters(product_name, purpose, cost, shelf_life, d) ==
    LET auto_params == default_parameters(cost, shelf_life)
        products == dict_get(d, "products", <<>>)
    IN  IF product_name \in DOMAIN products
        THEN stored_lookup(auto_params, products, product_name, cost, shelf_life)
        ELSE shelf_life_adjust(
                 cost_adjust(category_blocks(auto_params, str_lower(product_name)),
                             cost),
                 shelf_life)

(***************************************************************************)
(* save_product_page: the record built for a new product                   *)
(***************************************************************************)
new_product(auto_params, shelf_life) ==
    [ basic_info |->
        [ category        |-> auto_params.industry_category,
          subcategory     |-> "Auto-detected",
          intended_market |-> auto_params.target_market ],
      properties |->
        [ weight_volume |-> "Auto-detected",
          shape_form    |-> auto_params.product_state,
          shelf_life    |-> shelf_life,
          fragility     |-> auto_params.fragility_level,
          moisture_sensitivity |->
              IF auto_params.moisture_sensitivity \in {"Medium", "High"}
              THEN "Yes" ELSE "No",
          light_sensitivity |->
              IF auto_params.light_sensitivity \in {"Medium", "High"}
              THEN "Yes" ELSE "No" ],
      packaging |-> [ primary |-> <<>>, secondary |-> <<>>, tertiary |-> <<>> ],
      auto_parameters |-> auto_params ]

(***************************************************************************)
(* Inputs of the inference runs                                            *)
(***************************************************************************)
N_Cheese == <<"C","h","e","e","s","e">>

N_IceCream == <<"I","c","e"," ","C","r","e","a","m">>

N_FrozenCreamCake == <<"F","r","o","z","e","n"," ","C","r","e","a","m"," ","C","a","k","e">>

N_CannedSoup == <<"C","a","n","n","e","d"," ","S","o","u","p">>

N_CannedBeans == <<"C","a","n","n","e","d"," ","B","e","a","n","s">>

N_ChocolateMilk == <<"C","h","o","c","o","l","a","t","e"," ","M","i","l","k">>

N_Chocolate == <<"C","h","o","c","o","l","a","t","e">>

N_Soap == <<"S","o","a","p">>

N_FrozenPeas == <<"F","r","o","z","e","n"," ","P","e","a","s">>

N_OrangeJuice == <<"O","r","a","n","g","e"," ","J","u","i","c","e">>

N_GreenTea == <<"G","r","e","e","n"," ","T","e","a">>

N_Honey == <<"H","o","n","e","y">>

N_OliveOil == <<"O","l","i","v","e"," ","O","i","l">>

N_Bread == <<"B","r","e","a","d">>

N_Rice == <<"R","i","c","e">>

N_PotatoChips == <<"P","o","t","a","t","o"," ","C","h","i","p","s">>

N_Cookies == <<"C","o","o","k","i","e","s">>

N_Chicken == <<"C","h","i","c","k","e","n">>

N_BabyFood == <<"B","a","b","y"," ","F","o","o","d">>

N_Milk == <<"M","i","l","k">>

ProductNames ==
    { N_Cheese,
      N_IceCream,
      N_FrozenCreamCake,
      N_CannedSoup,
      N_CannedBeans,
      N_ChocolateMilk,
      N_Chocolate,
      N_Soap,
      N_FrozenPeas,
      N_OrangeJuice,
      N_GreenTea,
      N_Honey,
      N_OliveOil,
      N_Bread,
      N_Rice,
      N_PotatoChips,
      N_Cookies,
      N_Chicken,
      N_BabyFood,
      N_Milk }

Purposes == { "Food Safety" }

Budgets == { "Economy", "Standard", "Premium" }

ShelfLives == { "Days", "Weeks", "Months", "Years" }

\* the catalog of a missing file
EmptyCatalog ==
    [ products |-> <<>>,
      packaging_materials |-> <<>>,
      recommendation_rules |-> <<>>,
      scoring_parameters |-> <<>> ]

\* load_database without the decorator: the document of the file, or the
\* empty document when the file does not exist
load_database(file) ==
    IF file # {} THEN CHOOSE d \in file : TRUE ELSE EmptyCatalog

\* @st.cache_data on load_database (no arguments, no ttl): the first call
\* runs the function and stores what it returned; every call hands out a
\* copy of the stored value, so a change made to one copy is in no other
cached_load_database(c, file) ==
    IF c # {}
    THEN [ value |-> CHOOSE d \in c : TRUE, cache |-> c ]
    ELSE [ value |-> load_database(file), cache |-> { load_database(file) } ]

\* save_database: the file is overwritten with the whole dict
save_database(d) == { d }

\* products of a catalog file edited by hand: one with a partial profile (and
\* a key the defaults do not have), one with no profile at all
HandEditedProducts ==
    (N_Rice :>
        [ basic_info |-> [ category |-> "Food", subcategory |-> "Grains",
                           intended_market |-> "Consumer retail" ],
          auto_parameters |->
            [ product_state |-> "Powder",
              oxygen_sensitivity |-> "Low",
              sustainability_priority |-> "Eco-focused",
              brand_positioning |-> "Mainstream",
              budget_range |-> "Economy",
              shelf_life_requirement |-> "Weeks",
              closure_type |-> "Zip" ] ])
    @@
    (N_Milk :>
        [ basic_info |-> [ category |-> "Food", subcategory |-> "Dairy",
                           intended_market |-> "Consumer retail" ] ])

\* products written by save_product_page in an earlier session
EarlierSavedProducts ==
    (N_CannedSoup :>
        new_product(get_auto_parameters(N_CannedSoup, "Food Safety", "Standard",
                                        "Weeks", EmptyCatalog), "Weeks"))
    @@
    (N_Chocolate :>
        new_product(get_auto_parameters(N_Chocolate, "Retail Display", "Standard",
                                        "Days", EmptyCatalog), "Days"))

InferCatalogs ==
    { EmptyCatalog,
      [EmptyCatalog EXCEPT !.products = HandEditedProducts],
      [EmptyCatalog EXCEPT !.products = EarlierSavedProducts] }

(***************************************************************************)
(* The inference runs: get_auto_parameters on the catalog of a session     *)
(***************************************************************************)
InitInfer ==
    /\ db \in InferCatalogs
    /\ user_inputs = <<>>
    /\ call = [ op |-> "none" ]
    /\ ret = NoneValue
    /\ db_file = { db }
    /\ cache = {}

\* recommendation_page: the profile of the product the user asked about
GetAutoParametersOf(names) ==
    \E product_name \in names, purpose \in Purposes,
       cost \in Budgets, shelf_life \in ShelfLives :
        /\ call' = [ op |-> "get_auto_parameters", product_name |-> product_name,
                     cost |-> cost, shelf_life |-> shelf_life ]
        /\ ret' = get_auto_parameters(product_name, purpose, cost, shelf_life, db)
        /\ UNCHANGED <<db, user_inputs, db_file, cache>>

GetAutoParameters == GetAutoParametersOf(ProductNames)

NextInfer == GetAutoParameters

SpecInfer == InitInfer /\ [][NextInfer]_vars

(***************************************************************************)
(* The save runs: products saved through the Save New Product page and     *)
(* looked up again in the catalog that was saved (the document a later     *)
(* process reads from the file)                                            *)
(***************************************************************************)
\* at most this many products are saved through the page in one run
MaxSaved == 1

\* the names typed into the Save New Product page
NewProductNames == { N_Cheese, N_Soap, N_Rice }

\* a product record written by save_product_page
saved_by_page(product) ==
    /\ "properties" \in DOMAIN product
    /\ "auto_parameters" \in DOMAIN product
    /\ product.basic_info.subcategory = "Auto-detected"

saved_names(d) == { n \in DOMAIN d.products : saved_by_page(d.products[n]) }

InitSave ==
    /\ db \in { EmptyCatalog, [EmptyCatalog EXCEPT !.products = HandEditedProducts] }
    /\ user_inputs = <<>>
    /\ call = [ op |-> "none" ]
    /\ ret = NoneValue
    /\ db_file = { db }
    /\ cache = {}

\* save_product_page, the Save Product button on a new name
SaveProduct ==
    \E product_name \in NewProductNames, purpose \in Purposes,
       cost \in Budgets, shelf_life \in ShelfLives :
        /\ product_name \notin DOMAIN dict_get(db, "products", <<>>)
        /\ Cardinality(saved_names(db)) < MaxSaved
        /\ LET auto_params ==
                   get_auto_parameters(product_name, purpose, cost, shelf_life, db)
           IN  db' = [db EXCEPT !.products =
                         dict_set(db.products, product_name,
                                  new_product(auto_params, shelf_life))]
        /\ call' = [ op |-> "save_product_page", product_name |-> product_name,
                     cost |-> cost, shelf_life |-> shelf_life ]
        /\ ret' = NoneValue
        /\ db_file' = save_database(db')
        /\ UNCHANGED <<user_inputs, cache>>

\* save_product_page on a name the catalog already holds: st.error and return
SaveProductExists ==
    \E product_name \in NewProductNames :
        /\ product_name \in DOMAIN dict_get(db, "products", <<>>)
        /\ call' = [ op |-> "save_product_page_exists",
                     product_name |-> product_name ]
        /\ ret' = NoneValue
        /\ UNCHANGED <<db, user_inputs, db_file, cache>>

\* recommendation_page on one of the names of the save page
LookUpProduct == GetAutoParametersOf(NewProductNames)

NextSave == SaveProduct \/ SaveProductExists \/ LookUpProduct

SpecSave == InitSave /\ [][NextSave]_vars

(***************************************************************************)
(* Properties of attribute inference                                       *)
(***************************************************************************)
\* the last operation was a call of get_auto_parameters
Inferred == call.op = "get_auto_parameters"

\* ... on a name the catalog holds
InferredStored == Inferred /\ call.product_name \in DOMAIN db.products

\* ... on a name the catalog does not hold
InferredNew == Inferred /\ call.product_name \notin DOMAIN db.products

\* C2 (as claimed): a profile saved by save_product_page and inferred again
\* with the cost and shelf life it was saved with comes back identical in
\* every field.
RoundTripIdentical ==
    (/\ InferredStored
     /\ saved_by_page(db.products[call.product_name])
     /\ db.products[call.product_name].properties.shelf_life = call.shelf_life
     /\ db.products[call.product_name].auto_parameters.budget_range = call.cost)
    => ret = db.products[call.product_name].auto_parameters

\* C6 (as claimed): a shelf life of Months or Years gives High oxygen and
\* moisture sensitivity, whether or not the product is stored.
LongShelfLifeForcesHighAlways ==
    (Inferred /\ call.shelf_life \in {"Months", "Years"})
    => (ret.oxygen_sensitivity = "High" /\ ret.moisture_sensitivity = "High")

\* C6 (amended): for a product that is not stored, a shelf life of Months or
\* Years gives High oxygen and moisture sensitivity, whatever the category
\* block set.
LongShelfLifeForcesHighWhenNew ==
    (InferredNew /\ call.shelf_life \in {"Months", "Years"})
    => (ret.oxygen_sensitivity = "High" /\ ret.moisture_sensitivity = "High")

\* C6 witness: "Canned Soup", not stored, Months: the canned block's None is
\* overridden.
LongShelfLifeWitness ==
    /\ InferredNew
    /\ call.product_name = N_CannedSoup
    /\ call.shelf_life = "Months"
    /\ category_blocks(default_parameters(call.cost, call.shelf_life),
                       str_lower(call.product_name)).oxygen_sensitivity = "None"
    /\ ret.oxygen_sensitivity = "High"
    /\ ret.moisture_sensitivity = "High"

\* C7: for a product that is not stored, Economy gives brand_positioning Value
\* and sustainability_priority Cost focused, Premium gives brand_positioning
\* Premium, and Standard keeps the brand_positioning of the category block
\* (or the default).
CostAdjustsBrand ==
    InferredNew =>
        /\ call.cost = "Economy" =>
              /\ ret.brand_positioning = "Value"
              /\ ret.sustainability_priority = "Cost focused"
        /\ call.cost = "Premium" => ret.brand_positioning = "Premium"
        /\ call.cost = "Standard" =>
              ret.brand_positioning =
                  category_blocks(default_parameters(call.cost, call.shelf_life),
                                  str_lower(call.product_name)).brand_positioning

\* C7 witness: "Chocolate", not stored, Economy: the confectionery block's
\* Premium is overridden by Value.
CostAdjustsBrandWitness ==
    /\ InferredNew
    /\ call.product_name = N_Chocolate
    /\ call.cost = "Economy"
    /\ ret.brand_positioning = "Value"
    /\ ret.sustainability_priority = "Cost focused"

\* C8: for a stored product the result has the caller's cost and shelf life,
\* the stored value of every other stored key, the default of every key the
\* stored profile lacks, and no other key.
StoredProfileFrame ==
    InferredStored =>
        LET stored == dict_get(db.products[call.product_name],
                               "auto_parameters", <<>>)
            defaults == default_parameters(call.cost, call.shelf_life)
        IN  /\ ret.budget_range = call.cost
            /\ ret.shelf_life_requirement = call.shelf_life
            /\ DOMAIN ret = (DOMAIN defaults) \cup (DOMAIN stored)
            /\ \A k \in (DOMAIN stored) \ {"budget_range", "shelf_life_requirement"} :
                   ret[k] = stored[k]
            /\ \A k \in (DOMAIN defaults) \ (DOMAIN stored) : ret[k] = defaults[k]

\* C8 witness: the stored "Rice" (stored budget Economy, shelf life Weeks,
\* state Powder) asked for with Premium and Years.
StoredProfileWitness ==
    /\ InferredStored
    /\ call.product_name = N_Rice
    /\ call.cost = "Premium"
    /\ call.shelf_life = "Years"
    /\ db.products[N_Rice].auto_parameters.budget_range = "Economy"
    /\ ret.budget_range = "Premium"
    /\ ret.product_state = "Powder"
    /\ ret.viscosity = "Medium"

\* the categories in the order of the chain
category_words ==
    << beverage_words, dairy_words, oil_words, grain_words, snack_words,
       meat_words, frozen_words, canned_words, confectionery_words >>

category_block(k, p, product_lower) ==
    CASE k = 1 -> beverages_block(p, product_lower)
      [] k = 2 -> dairy_block(p)
      [] k = 3 -> oils_block(p, product_lower)
      [] k = 4 -> grains_block(p, product_lower)
      [] k = 5 -> snacks_block(p, product_lower)
      [] k = 6 -> meat_block(p)
      [] k = 7 -> frozen_block(p)
      [] k = 8 -> canned_block(p, product_lower)
      [] k = 9 -> confectionery_block(p)

matching_categories(product_lower) ==
    { k \in DOMAIN category_words : any_word_in(category_words[k], product_lower) }

\* C9: for a product that is not stored, the result is the default profile
\* changed by the block of the earliest matching category alone (by no block
\* when none matches), then by the cost and shelf-life adjustments.
FirstMatchWins ==
    InferredNew =>
        LET product_lower == str_lower(call.product_name)
            matching == matching_categories(product_lower)
            base == default_parameters(call.cost, call.shelf_life)
            blocked ==
                IF matching = {} THEN base
                ELSE category_block(
                         CHOOSE k \in matching : \A j \in matching : k <= j,
                         base, product_lower)
        IN  ret = shelf_life_adjust(cost_adjust(blocked, call.cost), call.shelf_life)

\* C9 witness: "Frozen Cream Cake" matches dairy, frozen and confectionery and
\* gets the dairy block's Cold storage.
FirstMatchWinsWitness ==
    /\ InferredNew
    /\ call.product_name = N_FrozenCreamCake
    /\ matching_categories(str_lower(call.product_name)) = {2, 7, 9}
    /\ ret.storage_temperature = "Cold"
    /\ ret.product_state = "Semi-solid"

(***************************************************************************)
(* apply_recommendation_rules                                              *)
(*                                                                         *)
(* recommendation_rules is a dict in the file; the model keeps its entries *)
(* in iteration order, as a sequence of rule records.  Bonus points are in *)
(* tenths of a point: priority_score * 0.3 is 3 * priority_score tenths.   *)
(***************************************************************************)
\* a trigger test that wants every pair of one trigger to match
rule_triggered_all_pairs(rule_data, profile) ==
    \E i \in DOMAIN dict_get(rule_data, "triggers", <<>>) :
        LET trigger == dict_get(rule_data, "triggers", <<>>)[i]
        IN  \A key \in DOMAIN trigger :
                dict_get(profile, key, NoneValue) = trigger[key]

\* the loops over the triggers and their pairs: rule_triggered is set as soon
\* as one pair matches
rule_triggered(rule_data, profile) ==
    \E i \in DOMAIN dict_get(rule_data, "triggers", <<>>) :
        LET trigger == dict_get(rule_data, "triggers", <<>>)[i]
        IN  \E key \in DOMAIN trigger :
                dict_get(profile, key, NoneValue) = trigger[key]

\* a rule body whose second test is an `if`, not an `elif`
rule_contribution_no_elif(rule_data, profile, material_name) ==
    IF rule_triggered(rule_data, profile)
    THEN (IF material_name \in dict_get(rule_data, "recommended_materials", {})
          THEN 3 * dict_get(rule_data, "priority_score", 0) ELSE 0)
         - (IF material_name \in dict_get(rule_data, "avoid_materials", {})
            THEN 2 * dict_get(rule_data, "priority_score", 0) ELSE 0)
    ELSE 0

\* what one pass of the loop body adds to bonus_points, in tenths
rule_contribution(rule_data, profile, material_name) ==
    IF rule_triggered(rule_data, profile)
    THEN IF material_name \in dict_get(rule_data, "recommended_materials", {})
         THEN 3 * dict_get(rule_data, "priority_score", 0)
         ELSE IF material_name \in dict_get(rule_data, "avoid_materials", {})
         THEN 0 - 2 * dict_get(rule_data, "priority_score", 0)
         ELSE 0
    ELSE 0

RECURSIVE rules_loop(_, _, _, _)
\* bonus_points after the loop has run over rules, starting from bonus_points
rules_loop(rules, profile, material_name, bonus_points) ==
    IF rules = <<>> THEN bonus_points
    ELSE rules_loop(Tail(rules), profile, material_name,
                    bonus_points + rule_contribution(Head(rules), profile,
                                                     material_name))

apply_recommendation_rules(profile, material_name, d) ==
    rules_loop(dict_get(d, "recommendation_rules", <<>>), profile, material_name, 0)

(***************************************************************************)
(* calculate_packaging_score                                               *)
(*                                                                         *)
(* Points are in tenths.  A barrier level is a sequence of characters (the *)
(* code lower-cases and title-cases it before the table lookup).  The      *)
(* score is the exact fraction num / den, den > 0.                         *)
(***************************************************************************)
is_letter(c) == c \in DOMAIN to_lower \/ c \in DOMAIN to_upper

\* str.title(): a letter that follows no letter is upper-cased, every other
\* letter lower-cased
str_title(s) ==
    [i \in DOMAIN s |->
        IF i = 1 \/ ~is_letter(s[i - 1]) THEN upper_char(s[i]) ELSE lower_char(s[i])]

\* str.title() of a barrier type, as the details show it
barrier_title(barrier_type) ==
    CASE barrier_type = "oxygen" -> "Oxygen"
      [] barrier_type = "moisture" -> "Moisture"
      [] barrier_type = "light" -> "Light"

barrier_types == << "oxygen", "moisture", "light" >>

sensitivity_key(barrier_type) ==
    CASE barrier_type = "oxygen" -> "oxygen_sensitivity"
      [] barrier_type = "moisture" -> "moisture_sensitivity"
      [] barrier_type = "light" -> "light_sensitivity"

barrier_key(barrier_type) ==
    CASE barrier_type = "oxygen" -> "oxygen_barrier"
      [] barrier_type = "moisture" -> "moisture_barrier"
      [] barrier_type = "light" -> "light_barrier"

\* the keys of a material the scorer reads with [] (a KeyError when absent);
\* the sustainability flags are read under Eco-focused priority only
score_raises(profile, material_data) ==
    \/ "characteristics" \notin DOMAIN material_data
    \/ \E k \in { "product_state_compatibility", "oxygen_barrier",
                  "moisture_barrier", "light_barrier", "ph_tolerance",
                  "cost_category", "temperature_range" } :
           k \notin DOMAIN material_data.characteristics
    \/ /\ dict_get(profile, "sustainability_priority", NoneValue) = "Eco-focused"
       /\ \/ "sustainability" \notin DOMAIN material_data
          \/ \E k \in { "recyclable", "pcr_available", "biodegradable" } :
                 k \notin DOMAIN material_data.sustainability

scoring_weights(d) ==
    dict_get(dict_get(d, "scoring_parameters", <<>>), "compatibility_weights", <<>>)

\* Product State Compatibility: <<points, details line>>
product_state_factor(profile, material_data, weights) ==
    IF dict_get(profile, "product_state", NoneValue)
           \in material_data.characteristics.product_state_compatibility
    THEN << 10 * dict_get(weights, "product_state", 25),
            << [ text |-> "Product state compatibility: +",
                 points |-> 10 * dict_get(weights, "product_state", 25) ] >> >>
    ELSE << 0, << [ text |-> "Product state incompatible: +0", points |-> 0 ] >> >>

\* a lookup with the material's level as it is written
barrier_lookup_case_sensitive(profile, material_data, barrier_scoring, barrier_type) ==
    LET user_need == dict_get(profile, sensitivity_key(barrier_type), "None")
        material_barrier == material_data.characteristics[barrier_key(barrier_type)]
        table == dict_get(barrier_scoring, barrier_type, <<>>)
    IN  IF user_need \in DOMAIN table
        THEN LET barrier_points ==
                     10 * dict_get(table[user_need], material_barrier, 0)
             IN  << barrier_points,
                    << [ text |-> IF barrier_points > 0
                                  THEN barrier_title(barrier_type) \o " barrier: +"
                                  ELSE barrier_title(barrier_type) \o " barrier: ",
                         points |-> barrier_points ] >> >>
        ELSE << 0, <<>> >>

\* one pass of the loop over the barrier types: <<barrier_points, details>>
barrier_lookup(profile, material_data, barrier_scoring, barrier_type) ==
    LET user_need == dict_get(profile, sensitivity_key(barrier_type), "None")
        material_barrier ==
            str_lower(material_data.characteristics[barrier_key(barrier_type)])
        table == dict_get(barrier_scoring, barrier_type, <<>>)
    IN  IF user_need \in DOMAIN table
        THEN LET barrier_points ==
                     10 * dict_get(table[user_need], str_title(material_barrier), 0)
             IN  << barrier_points,
                    << [ text |-> IF barrier_points > 0
                                  THEN barrier_title(barrier_type) \o " barrier: +"
                                  ELSE barrier_title(barrier_type) \o " barrier: ",
                         points |-> barrier_points ] >> >>
        ELSE << 0, <<>> >>

\* Barrier Requirements: <<barrier_score, details lines>>
barrier_factor(profile, material_data, d) ==
    LET barrier_scoring ==
            dict_get(dict_get(d, "scoring_parameters", <<>>), "barrier_scoring", <<>>)
        o == barrier_lookup(profile, material_data, barrier_scoring, "oxygen")
        m == barrier_lookup(profile, material_data, barrier_scoring, "moisture")
        l == barrier_lookup(profile, material_data, barrier_scoring, "light")
    IN  << o[1] + m[1] + l[1], o[2] \o m[2] \o l[2] >>

\* a pH test that gives the absent ph_level no default
chemical_factor_no_default(profile, material_data, weights) ==
    IF dict_get(profile, "ph_level", NoneValue)
           \in material_data.characteristics.ph_tolerance
    THEN << 10 * dict_get(weights, "chemical_compatibility", 15),
            << [ text |-> "Chemical compatibility: +",
                 points |-> 10 * dict_get(weights, "chemical_compatibility", 15) ] >> >>
    ELSE << 0, << [ text |-> "Chemical incompatibility: +0", points |-> 0 ] >> >>

\* Chemical Compatibility
chemical_factor(profile, material_data, weights) ==
    IF dict_get(profile, "ph_level", "Neutral")
           \in material_data.characteristics.ph_tolerance
    THEN << 10 * dict_get(weights, "chemical_compatibility", 15),
            << [ text |-> "Chemical compatibility: +",
                 points |-> 10 * dict_get(weights, "chemical_compatibility", 15) ] >> >>
    ELSE << 0, << [ text |-> "Chemical incompatibility: +0", points |-> 0 ] >> >>

\* Cost Alignment
cost_factor(profile, material_data, d) ==
    LET cost_scoring ==
            dict_get(dict_get(d, "scoring_parameters", <<>>), "cost_scoring", <<>>)
        user_budget == dict_get(profile, "budget_range", "Standard")
        material_cost == material_data.characteristics.cost_category
    IN  IF user_budget \in DOMAIN cost_scoring
           /\ material_cost \in DOMAIN cost_scoring[user_budget]
        THEN LET cost_score == 10 * cost_scoring[user_budget][material_cost]
             IN  << cost_score,
                    << [ text |-> IF cost_score > 0 THEN "Cost alignment: +"
                                  ELSE "Cost mismatch: ",
                         points |-> cost_score ] >> >>
        ELSE << 0, <<>> >>

\* a temperature test with the condition inverted
temperature_factor_inverted(profile, material_data, weights) ==
    IF dict_get(profile, "storage_temperature", "Ambient")
           \notin material_data.characteristics.temperature_range
    THEN << 10 * dict_get(weights, "temperature_requirements", 10),
            << [ text |-> "Temperature compatibility: +",
                 points |-> 10 * dict_get(weights, "temperature_requirements", 10) ] >> >>
    ELSE << 0, << [ text |-> "Temperature incompatibility: +0", points |-> 0 ] >> >>

\* Temperature Requirements
temperature_factor(profile, material_data, weights) ==
    IF dict_get(profile, "storage_temperature", "Ambient")
           \in material_data.characteristics.temperature_range
    THEN << 10 * dict_get(weights, "temperature_requirements", 10),
            << [ text |-> "Temperature compatibility: +",
                 points |-> 10 * dict_get(weights, "temperature_requirements", 10) ] >> >>
    ELSE << 0, << [ text |-> "Temperature incompatibility: +0", points |-> 0 ] >> >>

\* a sustainability factor that gives the other priorities the default weight
sustainability_factor_full_when_not_eco(profile, material_data) ==
    LET sustain_score ==
            IF dict_get(profile, "sustainability_priority", NoneValue) = "Eco-focused"
            THEN   (IF material_data.sustainability.recyclable THEN 40 ELSE 0)
                 + (IF material_data.sustainability.pcr_available THEN 20 ELSE 0)
                 + (IF material_data.sustainability.biodegradable THEN 20 ELSE 0)
            ELSE 80
    IN  << sustain_score,
           << [ text |-> "Sustainability match: +", points |-> sustain_score ] >> >>

\* Sustainability Match
sustainability_factor(profile, material_data) ==
    LET sustain_score ==
            IF dict_get(profile, "sustainability_priority", NoneValue) = "Eco-focused"
            THEN   (IF material_data.sustainability.recyclable THEN 40 ELSE 0)
                 + (IF material_data.sustainability.pcr_available THEN 20 ELSE 0)
                 + (IF material_data.sustainability.biodegradable THEN 20 ELSE 0)
            ELSE 40
    IN  << sustain_score,
           << [ text |-> "Sustainability match: +", points |-> sustain_score ] >> >>

\* a maximum that counts the configured weights only
max_possible_score_configured_only(weights) ==
      dict_get(weights, "product_state", 0)
    + dict_get(weights, "barrier_requirements", 0)
    + dict_get(weights, "chemical_compatibility", 0)
    + dict_get(weights, "cost_alignment", 0)
    + dict_get(weights, "temperature_requirements", 0)
    + dict_get(weights, "sustainability_match", 0)

\* max_possible_score, in whole points
max_possible_score(weights) ==
      dict_get(weights, "product_state", 25)
    + dict_get(weights, "barrier_requirements", 20)
    + dict_get(weights, "chemical_compatibility", 15)
    + dict_get(weights, "cost_alignment", 12)
    + dict_get(weights, "temperature_requirements", 10)
    + dict_get(weights, "sustainability_match", 8)

\* a final score without the min
final_score_unclamped(total_score, max_possible) ==
    IF max_possible > 0
    THEN [ num |-> total_score * 10, den |-> max_possible ]
    ELSE [ num |-> 0, den |-> 1 ]

\* min(100, (total_score / max_possible_score) * 100) if max_possible_score > 0
\* else 0, with total_score in tenths
final_score(total_score, max_possible) ==
    IF max_possible > 0
    THEN IF total_score * 10 >= 100 * max_possible
         THEN [ num |-> 100, den |-> 1 ]
         ELSE [ num |-> total_score * 10, den |-> max_possible ]
    ELSE [ num |-> 0, den |-> 1 ]

\* the function's local variables when it reaches its last statement
score_locals(profile, material_name, material_data, d) ==
    LET weights == scoring_weights(d)
        state == product_state_factor(profile, material_data, weights)
        barrier == barrier_factor(profile, material_data, d)
        chem == chemical_factor(profile, material_data, weights)
        cost == cost_factor(profile, material_data, d)
        temp == temperature_factor(profile, material_data, weights)
        sustain == sustainability_factor(profile, material_data)
        rule_bonuses == apply_recommendation_rules(profile, material_name, d)
    IN  [ state_score |-> state[1],
          barrier_score |-> barrier[1],
          chem_score |-> chem[1],
          cost_score |-> cost[1],
          temp_score |-> temp[1],
          sustain_score |-> sustain[1],
          rule_bonuses |-> rule_bonuses,
          total_score |-> state[1] + barrier[1] + chem[1] + cost[1] + temp[1]
                          + sustain[1] + rule_bonuses,
          max_possible_score |-> max_possible_score(weights),
          scoring_details |->
              state[2] \o barrier[2] \o chem[2] \o cost[2] \o temp[2] \o sustain[2]
              \o (IF rule_bonuses > 0
                  THEN << [ text |-> "Rule bonuses: +", points |-> rule_bonuses ] >>
                  ELSE <<>>) ]

calculate_packaging_score(profile, material_name, material_data, d) ==
    IF score_raises(profile, material_data)
    THEN [ error |-> "KeyError" ]
    ELSE
    LET locals == score_locals(profile, material_name, material_data, d)
    IN  [ error |-> "none",
          score |-> final_score(locals.total_score, locals.max_possible_score),
          scoring_details |-> locals.scoring_details ]

\* a >= b on scores
score_ge(a, b) == a.num * b.den >= b.num * a.den

\* score >= n for a whole number n
score_at_least(a, n) == a.num >= n * a.den

(***************************************************************************)
(* generate_recommendation_reasons                                         *)
(***************************************************************************)
L_Excellent == <<"E","x","c","e","l","l","e","n","t">>

L_High == <<"H","i","g","h">>

reasons_raise(profile, material_data) ==
    \/ "characteristics" \notin DOMAIN material_data
    \/ \E k \in { "product_state_compatibility", "oxygen_barrier",
                  "moisture_barrier", "light_barrier", "cost_category" } :
           k \notin DOMAIN material_data.characteristics
    \/ /\ dict_get(profile, "sustainability_priority", NoneValue) = "Eco-focused"
       /\ \/ "sustainability" \notin DOMAIN material_data
          \/ \E k \in { "recyclable", "pcr_available", "biodegradable" } :
                 k \notin DOMAIN material_data.sustainability

\* a barrier praise that compares the level whatever its case
barrier_reasons_any_case(profile, material_data) ==
    LET praised(barrier_type) ==
            /\ dict_get(profile, sensitivity_key(barrier_type), "None") = "High"
            /\ str_title(material_data.characteristics[barrier_key(barrier_type)])
                   \in { L_Excellent, L_High }
    IN  (IF praised("oxygen") THEN << "oxygen" >> ELSE <<>>)
        \o (IF praised("moisture") THEN << "moisture" >> ELSE <<>>)
        \o (IF praised("light") THEN << "light" >> ELSE <<>>)

\* the barrier types praised, in the order of the loop
barrier_reasons(profile, material_data) ==
    LET praised(barrier_type) ==
            /\ dict_get(profile, sensitivity_key(barrier_type), "None") = "High"
            /\ material_data.characteristics[barrier_key(barrier_type)]
                   \in { L_Excellent, L_High }
    IN  (IF praised("oxygen") THEN << "oxygen" >> ELSE <<>>)
        \o (IF praised("moisture") THEN << "moisture" >> ELSE <<>>)
        \o (IF praised("light") THEN << "light" >> ELSE <<>>)

sustain_features(material_data) ==
    (IF material_data.sustainability.recyclable THEN << "recyclable" >> ELSE <<>>)
    \o (IF material_data.sustainability.pcr_available
        THEN << "PCR available" >> ELSE <<>>)
    \o (IF material_data.sustainability.biodegradable
        THEN << "biodegradable" >> ELSE <<>>)

generate_recommendation_reasons(profile, material_data, score) ==
    LET pros_all == dict_get(material_data, "pros", <<>>)
        pros == SubSeq(pros_all, 1, IF Len(pros_all) < 2 THEN Len(pros_all) ELSE 2)
    IN
    (IF dict_get(profile, "product_state", NoneValue)
            \in material_data.characteristics.product_state_compatibility
     THEN << [ kind |-> "state", text |-> << profile.product_state >> ] >>
     ELSE <<>>)
    \o (IF barrier_reasons(profile, material_data) # <<>>
        THEN << [ kind |-> "barrier",
                  text |-> barrier_reasons(profile, material_data) ] >>
        ELSE <<>>)
    \o (IF dict_get(profile, "budget_range", NoneValue)
               = material_data.characteristics.cost_category
        THEN << [ kind |-> "budget", text |-> << profile.budget_range >> ] >>
        ELSE <<>>)
    \o (IF dict_get(profile, "sustainability_priority", NoneValue) = "Eco-focused"
           /\ sustain_features(material_data) # <<>>
        THEN << [ kind |-> "sustainability",
                  text |-> sustain_features(material_data) ] >>
        ELSE <<>>)
    \o (IF score_at_least(score, 90)
        THEN << [ kind |-> "tier", text |-> << "Exceptional compatibility match" >> ] >>
        ELSE IF score_at_least(score, 75)
        THEN << [ kind |-> "tier", text |-> << "Excellent compatibility" >> ] >>
        ELSE IF score_at_least(score, 60)
        THEN << [ kind |-> "tier", text |-> << "Good compatibility" >> ] >>
        ELSE <<>>)
    \o [ i \in DOMAIN pros |-> [ kind |-> "pro", text |-> << pros[i] >> ] ]

(***************************************************************************)
(* get_packaging_recommendations                                           *)
(*                                                                         *)
(* packaging_materials is a dict in the file; the model keeps its entries  *)
(* in iteration order, as a sequence of [name, data] records.              *)
(***************************************************************************)
RECURSIVE reverse_seq(_)
reverse_seq(s) == IF s = <<>> THEN <<>> ELSE reverse_seq(Tail(s)) \o << Head(s) >>

\* list.sort(key=score, reverse=True), one insertion: a stable sort keeps an
\* entry behind the entries of equal score that came before it
RECURSIVE insert_desc(_, _)
insert_desc(sorted, x) ==
    IF sorted = <<>> THEN << x >>
    ELSE IF score_ge(Head(sorted).score, x.score)
    THEN << Head(sorted) >> \o insert_desc(Tail(sorted), x)
    ELSE << x >> \o sorted

RECURSIVE sort_loop(_, _)
sort_loop(sorted, rest) ==
    IF rest = <<>> THEN sorted
    ELSE sort_loop(insert_desc(sorted, Head(rest)), Tail(rest))

RECURSIVE insert_asc(_, _)
insert_asc(sorted, x) ==
    IF sorted = <<>> THEN << x >>
    ELSE IF score_ge(x.score, Head(sorted).score)
    THEN << Head(sorted) >> \o insert_asc(Tail(sorted), x)
    ELSE << x >> \o sorted

RECURSIVE sort_asc_loop(_, _)
sort_asc_loop(sorted, rest) ==
    IF rest = <<>> THEN sorted
    ELSE sort_asc_loop(insert_asc(sorted, Head(rest)), Tail(rest))

\* a sort written as "ascending, then reversed": entries of equal score come
\* out in reverse order
sort_by_score_reversed_ascending(recommendations) ==
    reverse_seq(sort_asc_loop(<<>>, recommendations))

\* recommendations.sort(key=lambda x: x['score'], reverse=True)
sort_by_score_desc(recommendations) == sort_loop(<<>>, recommendations)

\* material_name.replace('_', ' ') is kept as the name itself: the display
\* name plays no part in scoring or ordering
recommendation_entry(profile, material, d) ==
    LET scored == calculate_packaging_score(profile, material.name, material.data, d)
    IN  [ material_name |-> material.name,
          score |-> scored.score,
          data |-> material.data,
          scoring_details |-> scored.scoring_details,
          reasons |-> generate_recommendation_reasons(profile, material.data,
                                                      scored.score) ]

get_packaging_recommendations(profile, d) ==
    LET materials == dict_get(d, "packaging_materials", <<>>)
    IN  IF \E i \in DOMAIN materials :
               \/ score_raises(profile, materials[i].data)
               \/ reasons_raise(profile, materials[i].data)
        THEN [ error |-> "KeyError" ]
        ELSE [ error |-> "none",
               recommendations |->
                   sort_by_score_desc(
                       [ i \in DOMAIN materials |->
                           recommendation_entry(profile, materials[i], d) ]) ]

(***************************************************************************)
(* Inputs of the scoring runs                                              *)
(***************************************************************************)
\* a catalog holds at most this many materials
MaxMaterials == 3

Glass_Jar ==
    [ name |-> "Glass_Jar",
      data |->
        [ material_type |-> "Glass",
          characteristics |->
            [ product_state_compatibility |-> { "Liquid", "Semi-solid" },
              oxygen_barrier |-> <<"E","x","c","e","l","l","e","n","t">>,
              moisture_barrier |-> <<"E","x","c","e","l","l","e","n","t">>,
              light_barrier |-> <<"L","o","w">>,
              ph_tolerance |-> { "Acidic", "Neutral" },
              cost_category |-> "Premium",
              temperature_range |-> { "Cold", "Ambient" } ],
          sustainability |->
            [ recyclable |-> TRUE, pcr_available |-> TRUE, biodegradable |-> FALSE ],
          pros |-> << "Inert", "Premium look", "Reusable" >> ] ]

\* barrier levels written in other cases
Aluminum_Can ==
    [ name |-> "Aluminum_Can",
      data |->
        [ material_type |-> "Metal",
          characteristics |->
            [ product_state_compatibility |-> { "Liquid" },
              oxygen_barrier |-> <<"H","I","G","H">>,
              moisture_barrier |-> <<"h","i","g","h">>,
              light_barrier |-> <<"E","x","c","e","l","l","e","n","t">>,
              ph_tolerance |-> { "Acidic", "Neutral" },
              cost_category |-> "Standard",
              temperature_range |-> { "Frozen", "Cold", "Ambient" } ],
          sustainability |->
            [ recyclable |-> TRUE, pcr_available |-> TRUE, biodegradable |-> FALSE ],
          pros |-> << "Light-proof", "Stackable" >> ] ]

Plastic_Pouch ==
    [ name |-> "Plastic_Pouch",
      data |->
        [ material_type |-> "Plastic",
          characteristics |->
            [ product_state_compatibility |-> { "Solid", "Powder" },
              oxygen_barrier |-> <<"M","e","d","i","u","m">>,
              moisture_barrier |-> <<"M","e","d","i","u","m">>,
              light_barrier |-> <<"L","o","w">>,
              ph_tolerance |-> { "Neutral" },
              cost_category |-> "Economy",
              temperature_range |-> { "Ambient" } ],
          sustainability |->
            [ recyclable |-> FALSE, pcr_available |-> FALSE, biodegradable |-> FALSE ],
          pros |-> << "Cheap" >> ] ]

\* the pouch's characteristics, other sustainability flags, no pros
Paper_Bag ==
    [ name |-> "Paper_Bag",
      data |->
        [ material_type |-> "Paper",
          characteristics |->
            [ product_state_compatibility |-> { "Solid", "Powder" },
              oxygen_barrier |-> <<"M","e","d","i","u","m">>,
              moisture_barrier |-> <<"M","e","d","i","u","m">>,
              light_barrier |-> <<"L","o","w">>,
              ph_tolerance |-> { "Neutral" },
              cost_category |-> "Economy",
              temperature_range |-> { "Ambient" } ],
          sustainability |->
            [ recyclable |-> TRUE, pcr_available |-> FALSE, biodegradable |-> TRUE ] ] ]

\* a malformed record: sustainability has no "recyclable" entry
Foil_Wrap ==
    [ name |-> "Foil_Wrap",
      data |->
        [ material_type |-> "Foil",
          characteristics |->
            [ product_state_compatibility |-> { "Solid" },
              oxygen_barrier |-> <<"H","i","g","h">>,
              moisture_barrier |-> <<"H","i","g","h">>,
              light_barrier |-> <<"H","i","g","h">>,
              ph_tolerance |-> { "Neutral", "Basic" },
              cost_category |-> "Standard",
              temperature_range |-> { "Frozen", "Cold", "Ambient", "Hot" } ],
          sustainability |-> [ pcr_available |-> FALSE, biodegradable |-> FALSE ],
          pros |-> << "Formable" >> ] ]

MaterialPool == { Glass_Jar, Aluminum_Can, Plastic_Pouch, Paper_Bag, Foil_Wrap }

MaterialNames == { m.name : m \in MaterialPool }

\* the dicts of at most MaxMaterials materials, in every iteration order
MaterialDicts ==
    UNION { { ms \in [1..n -> MaterialPool] :
                \A i, j \in 1..n : i # j => ms[i].name # ms[j].name } :
            n \in 0..MaxMaterials }

barrier_table ==
    [ High   |-> (<<"E","x","c","e","l","l","e","n","t">> :> 8) @@ (<<"H","i","g","h">> :> 6) @@ (<<"M","e","d","i","u","m">> :> 2)
                 @@ (<<"L","o","w">> :> (0 - 2)),
      Medium |-> (<<"E","x","c","e","l","l","e","n","t">> :> 5) @@ (<<"H","i","g","h">> :> 5) @@ (<<"M","e","d","i","u","m">> :> 4)
                 @@ (<<"L","o","w">> :> 1),
      Low    |-> (<<"E","x","c","e","l","l","e","n","t">> :> 3) @@ (<<"H","i","g","h">> :> 3) @@ (<<"M","e","d","i","u","m">> :> 3)
                 @@ (<<"L","o","w">> :> 3) ]

\* oxygen counts more where the need is high
oxygen_table ==
    [ barrier_table EXCEPT !.High =
        (<<"E","x","c","e","l","l","e","n","t">> :> 10) @@ (<<"H","i","g","h">> :> 9)
        @@ (<<"M","e","d","i","u","m">> :> 2) @@ (<<"L","o","w">> :> (0 - 2)) ]

\* no entry for a low light barrier where the need is high
light_table ==
    [ barrier_table EXCEPT !.High =
        (<<"E","x","c","e","l","l","e","n","t">> :> 8) @@ (<<"H","i","g","h">> :> 6)
        @@ (<<"M","e","d","i","u","m">> :> 2) ]

FullParameters ==
    [ compatibility_weights |->
        [ product_state |-> 25, barrier_requirements |-> 20,
          chemical_compatibility |-> 15, cost_alignment |-> 12,
          temperature_requirements |-> 10, sustainability_match |-> 8 ],
      barrier_scoring |->
        [ oxygen |-> oxygen_table, moisture |-> barrier_table,
          light |-> light_table ],
      cost_scoring |->
        [ Economy  |-> [ Economy |-> 12, Standard |-> 6, Premium |-> (0 - 8) ],
          Standard |-> [ Economy |-> 8, Standard |-> 12, Premium |-> 4 ],
          Premium  |-> [ Economy |-> 2, Standard |-> 8, Premium |-> 12 ] ] ]

\* some weights only (one of them negative), no barrier table, one budget row
\* (whose entry is more than the cost weight)
PartialParameters ==
    [ compatibility_weights |->
        [ product_state |-> 30, temperature_requirements |-> (0 - 10) ],
      cost_scoring |-> [ Economy |-> [ Economy |-> 40 ] ] ]

\* every weight zero
ZeroParameters ==
    [ FullParameters EXCEPT !.compatibility_weights =
        [ product_state |-> 0, barrier_requirements |-> 0,
          chemical_compatibility |-> 0, cost_alignment |-> 0,
          temperature_requirements |-> 0, sustainability_match |-> 0 ] ]

\* Scenario 3 of the specification
R_premium ==
    [ triggers |-> << [ budget_range |-> "Premium" ] >>,
      recommended_materials |-> { "Glass_Jar" },
      avoid_materials |-> {},
      priority_score |-> 10 ]

\* one trigger of two pairs
R_eco ==
    [ triggers |-> << [ sustainability_priority |-> "Eco-focused",
                        product_state |-> "Liquid" ] >>,
      recommended_materials |-> { "Paper_Bag" },
      avoid_materials |-> { "Plastic_Pouch" },
      priority_score |-> 5 ]

\* a material on both lists
R_both ==
    [ triggers |-> << [ product_state |-> "Liquid" ], [ ph_level |-> "Acidic" ] >>,
      recommended_materials |-> { "Aluminum_Can" },
      avoid_materials |-> { "Aluminum_Can", "Glass_Jar" },
      priority_score |-> 10 ]

\* no trigger at all
R_empty ==
    [ triggers |-> <<>>,
      recommended_materials |-> { "Glass_Jar", "Foil_Wrap" },
      avoid_materials |-> {},
      priority_score |-> 10 ]

\* a rule with a trigger and nothing else
R_bare == [ triggers |-> << [ budget_range |-> "Economy" ] >> ]

R_budget ==
    [ triggers |-> << [ budget_range |-> "Economy" ] >>,
      avoid_materials |-> { "Glass_Jar" },
      priority_score |-> 10 ]

MixedRules == << R_premium, R_eco, R_both, R_empty, R_bare, R_budget >>

\* a catalog with the given sections; parameters and rules are sets of at most
\* one element, the empty set leaving the section out
catalog_of(materials, parameters, rules) ==
    LET d0 == [ products |-> <<>>, packaging_materials |-> materials ]
        d1 == IF parameters = {} THEN d0
              ELSE dict_set(d0, "scoring_parameters", CHOOSE p \in parameters : TRUE)
    IN  IF rules = {} THEN d1
        ELSE dict_set(d1, "recommendation_rules", CHOOSE r \in rules : TRUE)

ScoreCatalogs ==
    { catalog_of(ms, { FullParameters }, {}) : ms \in MaterialDicts }
    \cup { catalog_of(ms, { FullParameters }, { << R_premium >> }) : ms \in MaterialDicts }
    \cup { catalog_of(ms, { FullParameters }, { MixedRules }) : ms \in MaterialDicts }
    \cup { catalog_of(ms, { PartialParameters }, { MixedRules }) : ms \in MaterialDicts }
    \cup { catalog_of(ms, { ZeroParameters }, { MixedRules }) : ms \in MaterialDicts }
    \cup { catalog_of(ms, {}, { MixedRules }) : ms \in MaterialDicts }
    \cup { [ products |-> <<>> ] }

\* Scenario 1 of the specification
Scenario1Profile ==
    [ product_state |-> "Liquid", oxygen_sensitivity |-> "None",
      moisture_sensitivity |-> "None", light_sensitivity |-> "None",
      ph_level |-> "Neutral", budget_range |-> "Standard",
      storage_temperature |-> "Ambient", sustainability_priority |-> "Balanced" ]

\* a partial profile that fits nothing
HotGasProfile ==
    [ product_state |-> "Gas", ph_level |-> "Basic", budget_range |-> "Economy",
      storage_temperature |-> "Hot", sustainability_priority |-> "Eco-focused" ]

Profiles ==
    { Scenario1Profile,
      HotGasProfile,
      <<>>,
      get_auto_parameters(N_OrangeJuice, "Food Safety", "Premium", "Months",
                          EmptyCatalog),
      get_auto_parameters(N_PotatoChips, "Food Safety", "Economy", "Days",
                          EmptyCatalog),
      get_auto_parameters(N_Rice, "Food Safety", "Economy", "Weeks",
                          [EmptyCatalog EXCEPT !.products = HandEditedProducts]) }

(***************************************************************************)
(* The scoring runs: the engine's entry points on one profile and catalog  *)
(***************************************************************************)
InitScore ==
    /\ db \in ScoreCatalogs
    /\ user_inputs \in Profiles
    /\ call = [ op |-> "none" ]
    /\ ret = NoneValue
    /\ db_file = { db }
    /\ cache = {}

CalculatePackagingScore ==
    \E i \in DOMAIN dict_get(db, "packaging_materials", <<>>) :
        /\ call' = [ op |-> "calculate_packaging_score", material |-> i ]
        /\ ret' = calculate_packaging_score(user_inputs,
                                            db.packaging_materials[i].name,
                                            db.packaging_materials[i].data, db)
        /\ UNCHANGED <<db, user_inputs, db_file, cache>>

ApplyRecommendationRules ==
    \E material_name \in MaterialNames :
        /\ call' = [ op |-> "apply_recommendation_rules",
                     material_name |-> material_name ]
        /\ ret' = apply_recommendation_rules(user_inputs, material_name, db)
        /\ UNCHANGED <<db, user_inputs, db_file, cache>>

\* a ranker that sorts the catalog itself: the materials are left in another
\* order than the call found them in
GetPackagingRecommendationsInPlace ==
    /\ call' = [ op |-> "get_packaging_recommendations" ]
    /\ ret' = get_packaging_recommendations(user_inputs, db)
    /\ db' = IF "packaging_materials" \in DOMAIN db
             THEN [db EXCEPT !.packaging_materials = reverse_seq(@)]
             ELSE db
    /\ UNCHANGED <<user_inputs, db_file, cache>>

GetPackagingRecommendations ==
    /\ call' = [ op |-> "get_packaging_recommendations" ]
    /\ ret' = get_packaging_recommendations(user_inputs, db)
    /\ UNCHANGED <<db, user_inputs, db_file, cache>>

NextScore ==
    \/ CalculatePackagingScore
    \/ ApplyRecommendationRules
    \/ GetPackagingRecommendations

SpecScore == InitScore /\ [][NextScore]_vars

(***************************************************************************)
(* Properties of the scorer, the rule engine and the ranker                *)
(***************************************************************************)
\* the last operation was a call of calculate_packaging_score that returned
Scored == call.op = "calculate_packaging_score" /\ ret.error = "none"

scored_material == db.packaging_materials[call.material]

\* C1 (as claimed): every score returned lies between 0 and 100.
ScoreWithinBounds ==
    Scored => (ret.score.num >= 0 /\ ret.score.num <= 100 * ret.score.den)

weights_non_negative(d) ==
    \A k \in DOMAIN scoring_weights(d) : scoring_weights(d)[k] >= 0

\* the material records that differ from data in one factor, made more
\* compatible with the profile
more_compatible(profile, data) ==
    LET ch == data.characteristics
        ph == dict_get(profile, "ph_level", "Neutral")
        temp == dict_get(profile, "storage_temperature", "Ambient")
        flags == { "recyclable", "pcr_available", "biodegradable" }
    IN  { [data EXCEPT !.characteristics.product_state_compatibility =
                           @ \cup { profile.product_state }] :
          x \in IF "product_state" \in DOMAIN profile
                   /\ profile.product_state \notin ch.product_state_compatibility
                THEN { 1 } ELSE {} }
        \cup
        { [data EXCEPT !.characteristics.ph_tolerance = @ \cup { ph }] :
          x \in IF ph \notin ch.ph_tolerance THEN { 1 } ELSE {} }
        \cup
        { [data EXCEPT !.characteristics.temperature_range = @ \cup { temp }] :
          x \in IF temp \notin ch.temperature_range THEN { 1 } ELSE {} }
        \cup
        { [data EXCEPT !.sustainability[f] = TRUE] :
          f \in IF dict_get(profile, "sustainability_priority", NoneValue)
                       = "Eco-focused"
                THEN { g \in flags : ~data.sustainability[g] } ELSE {} }

\* C4: with non-negative weights, a material made more compatible in one
\* factor scores at least as much as before.
ScoreMonotone ==
    (Scored /\ weights_non_negative(db)) =>
        \A better \in more_compatible(user_inputs, scored_material.data) :
            score_ge(calculate_packaging_score(user_inputs, scored_material.name,
                                               better, db).score,
                     ret.score)

\* C4 witness: an Eco-focused profile, non-negative weights that are not all
\* zero, and a more compatible material that scores strictly more.
ScoreMonotoneWitness ==
    /\ Scored
    /\ weights_non_negative(db)
    /\ dict_get(user_inputs, "sustainability_priority", NoneValue) = "Eco-focused"
    /\ \E better \in more_compatible(user_inputs, scored_material.data) :
           ~score_ge(ret.score,
                     calculate_packaging_score(user_inputs, scored_material.name,
                                               better, db).score)

\* the last operation was a call of get_packaging_recommendations that returned
Recommended == call.op = "get_packaging_recommendations" /\ ret.error = "none"

score_eq(a, b) == a.num * b.den = b.num * a.den

\* the place of a material name in the catalog's iteration order
catalog_position(name) ==
    CHOOSE i \in DOMAIN db.packaging_materials :
        db.packaging_materials[i].name = name

\* C5: the ranking holds every material of the catalog exactly once, with
\* the score the scorer gives it, by score descending and, among equal
\* scores, in catalog order; with no materials it is the empty list.
RankingComplete ==
    /\ (call.op = "get_packaging_recommendations"
        /\ dict_get(db, "packaging_materials", <<>>) = <<>>)
       => (ret.error = "none" /\ ret.recommendations = <<>>)
    /\ Recommended =>
        LET materials == dict_get(db, "packaging_materials", <<>>)
            recs == ret.recommendations
        IN  /\ Len(recs) = Len(materials)
            /\ \A i \in DOMAIN materials :
                   /\ Cardinality({ j \in DOMAIN recs :
                                      recs[j].material_name = materials[i].name }) = 1
                   /\ \A j \in DOMAIN recs :
                          recs[j].material_name = materials[i].name =>
                              recs[j].score =
                                  calculate_packaging_score(
                                      user_inputs, materials[i].name,
                                      materials[i].data, db).score
            /\ \A j, k \in DOMAIN recs :
                   j < k =>
                       /\ score_ge(recs[j].score, recs[k].score)
                       /\ score_eq(recs[j].score, recs[k].score) =>
                              catalog_position(recs[j].material_name)
                                  < catalog_position(recs[k].material_name)

\* C5 witness: three materials, two of them with equal scores, returned in
\* another order than the catalog's.
RankingWitness ==
    /\ Recommended
    /\ Len(ret.recommendations) = 3
    /\ \E j, k \in DOMAIN ret.recommendations :
           j < k /\ score_eq(ret.recommendations[j].score,
                             ret.recommendations[k].score)
    /\ \E j \in DOMAIN ret.recommendations :
           ret.recommendations[j].material_name # db.packaging_materials[j].name

\* the last operation was a call of apply_recommendation_rules
RulesApplied == call.op = "apply_recommendation_rules"

catalog_rules == dict_get(db, "recommendation_rules", <<>>)

\* the bonus of the call on the first n rules of the catalog alone
bonus_after(n) ==
    apply_recommendation_rules(
        user_inputs, call.material_name,
        dict_set(db, "recommendation_rules", SubSeq(catalog_rules, 1, n)))

on_both_lists(rule_data, material_name) ==
    /\ material_name \in dict_get(rule_data, "recommended_materials", {})
    /\ material_name \in dict_get(rule_data, "avoid_materials", {})

\* C3: a triggered rule that lists the material as recommended and as to
\* avoid adds 0.3 * priority_score and subtracts nothing; no rule adds a
\* bonus and a penalty together.
RuleExclusivity ==
    RulesApplied =>
        \A n \in DOMAIN catalog_rules :
            LET priority == dict_get(catalog_rules[n], "priority_score", 0)
                step == bonus_after(n) - bonus_after(n - 1)
            IN  /\ (/\ rule_triggered(catalog_rules[n], user_inputs)
                    /\ on_both_lists(catalog_rules[n], call.material_name))
                   => step = 3 * priority
                /\ step \in { 0, 3 * priority, 0 - 2 * priority }

\* C3 witness: a triggered rule of priority 10 with the material on both
\* lists, which adds 3.0.
RuleExclusivityWitness ==
    /\ RulesApplied
    /\ \E n \in DOMAIN catalog_rules :
           /\ rule_triggered(catalog_rules[n], user_inputs)
           /\ on_both_lists(catalog_rules[n], call.material_name)
           /\ dict_get(catalog_rules[n], "priority_score", 0) = 10
           /\ bonus_after(n) - bonus_after(n - 1) = 30
    /\ ret = bonus_after(Len(catalog_rules))

\* the (trigger, key) pairs of a rule that equal the profile's value
matching_pairs(rule_data, profile) ==
    LET triggers == dict_get(rule_data, "triggers", <<>>)
    IN  UNION { { << i, key >> :
                  key \in { k \in DOMAIN triggers[i] :
                              dict_get(profile, k, NoneValue) = triggers[i][k] } } :
                i \in DOMAIN triggers }

\* the contribution the claim gives a rule, in tenths
claimed_contribution(rule_data, profile, material_name) ==
    IF matching_pairs(rule_data, profile) = {} THEN 0
    ELSE IF material_name \in dict_get(rule_data, "recommended_materials", {})
    THEN 3 * dict_get(rule_data, "priority_score", 0)
    ELSE IF material_name \in dict_get(rule_data, "avoid_materials", {})
    THEN 0 - 2 * dict_get(rule_data, "priority_score", 0)
    ELSE 0

RECURSIVE claimed_sum(_, _, _, _)
claimed_sum(rules, n, profile, material_name) ==
    IF n = 0 THEN 0
    ELSE claimed_sum(rules, n - 1, profile, material_name)
         + claimed_contribution(rules[n], profile, material_name)

\* C10: the bonus is the sum over the catalog's rules of +0.3 * priority
\* (recommended), -0.2 * priority (only to avoid) or 0, counted for the rules
\* of which at least one pair of one trigger matches the profile; the rule of
\* Scenario 3 gives 3.0.
RuleBonusIsSum ==
    RulesApplied =>
        /\ ret = claimed_sum(catalog_rules, Len(catalog_rules), user_inputs,
                             call.material_name)
        /\ (/\ catalog_rules = << R_premium >>
            /\ dict_get(user_inputs, "budget_range", NoneValue) = "Premium"
            /\ call.material_name = "Glass_Jar")
           => ret = 30

\* C10 witness: Scenario 3.
RuleBonusWitness ==
    /\ RulesApplied
    /\ catalog_rules = << R_premium >>
    /\ dict_get(user_inputs, "budget_range", NoneValue) = "Premium"
    /\ call.material_name = "Glass_Jar"
    /\ ret = 30

required_characteristics ==
    { "product_state_compatibility", "oxygen_barrier", "moisture_barrier",
      "light_barrier", "ph_tolerance", "cost_category", "temperature_range" }

required_sustainability == { "recyclable", "pcr_available", "biodegradable" }

\* a material record that lacks a required field
malformed(material_data) ==
    \/ \E k \in required_characteristics :
           k \notin DOMAIN dict_get(material_data, "characteristics", <<>>)
    \/ \E k \in required_sustainability :
           k \notin DOMAIN dict_get(material_data, "sustainability", <<>>)

\* C12 (as claimed): scoring a material that lacks a required field ends in
\* an error, whatever the profile's sustainability_priority.
MalformedMaterialFails ==
    (call.op = "calculate_packaging_score" /\ malformed(scored_material.data))
        => ret.error = "KeyError"

(***************************************************************************)
(* Missing profile keys and catalog sections                               *)
(***************************************************************************)
\* the values the claim gives to absent profile keys
profile_defaults ==
    [ ph_level |-> "Neutral", storage_temperature |-> "Ambient",
      budget_range |-> "Standard", oxygen_sensitivity |-> "None",
      moisture_sensitivity |-> "None", light_sensitivity |-> "None" ]

\* the weights the claim gives to absent entries
default_weights ==
    [ product_state |-> 25, barrier_requirements |-> 20,
      chemical_compatibility |-> 15, cost_alignment |-> 12,
      temperature_requirements |-> 10, sustainability_match |-> 8 ]

\* the profile with its absent keys written out
with_defaults(profile) == dict_update(profile_defaults, profile)

\* the catalog with its absent weights written out
with_default_weights(d) ==
    dict_set(d, "scoring_parameters",
             dict_set(dict_get(d, "scoring_parameters", <<>>),
                      "compatibility_weights",
                      dict_update(default_weights, scoring_weights(d))))

\* what the six factors add, and the maximum
factor_scores(locals) ==
    << locals.state_score, locals.barrier_score, locals.chem_score,
       locals.cost_score, locals.temp_score, locals.sustain_score,
       locals.max_possible_score >>

well_formed_catalog ==
    \A i \in DOMAIN dict_get(db, "packaging_materials", <<>>) :
        ~malformed(db.packaging_materials[i].data)

\* C13: on a well-formed material the scorer returns for every profile and
\* catalog, and so does the ranker (which calls generate_recommendation_reasons)
\* on well-formed materials; every factor scores what it scores on the
\* profile with ph_level Neutral, storage_temperature Ambient, budget_range
\* Standard and sensitivities None written out for the absent keys, and
\* with the weights 25/20/15/12/10/8 written out for the absent weights.
ScoringTotalWithDefaults ==
    /\ (call.op = "calculate_packaging_score" /\ ~malformed(scored_material.data))
       => /\ ret.error = "none"
          /\ LET given == score_locals(user_inputs, scored_material.name,
                                       scored_material.data, db)
                 full == score_locals(with_defaults(user_inputs),
                                      scored_material.name, scored_material.data,
                                      with_default_weights(db))
             IN  /\ factor_scores(given) = factor_scores(full)
                 /\ ret.score =
                        final_score(full.total_score - full.rule_bonuses
                                        + given.rule_bonuses,
                                    full.max_possible_score)
    /\ (call.op = "get_packaging_recommendations" /\ well_formed_catalog)
       => ret.error = "none"

\* C13 witness: the empty profile scored on a catalog without
\* scoring_parameters, the default pH and temperature matching the material.
ScoringTotalWitness ==
    /\ Scored
    /\ user_inputs = <<>>
    /\ "scoring_parameters" \notin DOMAIN db
    /\ ~malformed(scored_material.data)
    /\ \E n \in DOMAIN ret.scoring_details :
           ret.scoring_details[n] =
               [ text |-> "Chemical compatibility: +", points |-> 150 ]
    /\ \E n \in DOMAIN ret.scoring_details :
           ret.scoring_details[n] =
               [ text |-> "Temperature compatibility: +", points |-> 100 ]

(***************************************************************************)
(* max_possible_score                                                      *)
(***************************************************************************)
weight_names ==
    << "product_state", "barrier_requirements", "chemical_compatibility",
       "cost_alignment", "temperature_requirements", "sustainability_match" >>

RECURSIVE sum_of_weights(_, _)
sum_of_weights(weights, n) ==
    IF n = 0 THEN 0
    ELSE sum_of_weights(weights, n - 1) + weights[weight_names[n]]

\* the sum of the six configured weights, an absent one counted by its default
claimed_max_possible(d) ==
    sum_of_weights(dict_update(default_weights, scoring_weights(d)), 6)

\* the last call's locals
scored_locals ==
    score_locals(user_inputs, scored_material.name, scored_material.data, db)

\* C14: for every profile, material and rule list, max_possible_score is a
\* function of the weights alone: the sum of the six configured weights (25,
\* 20, 15, 12, 10, 8 for the absent ones); the score returned is computed
\* on it.
MaxPossibleIsWeightSum ==
    Scored =>
        LET locals == scored_locals
        IN  /\ locals.max_possible_score = claimed_max_possible(db)
            /\ ret.score = final_score(locals.total_score,
                                       claimed_max_possible(db))

\* C14 witness: some weights configured and some not (30 + 20 + 15 + 12 - 10
\* + 8), no cost_scoring entry for the profile's budget, a barrier table
\* absent, a rule bonus in total.
MaxPossibleWitness ==
    /\ Scored
    /\ scoring_weights(db) = PartialParameters.compatibility_weights
    /\ scored_locals.max_possible_score = 75
    /\ dict_get(user_inputs, "budget_range", "Standard")
           \notin DOMAIN db.scoring_parameters.cost_scoring
    /\ scored_locals.rule_bonuses # 0
    /\ ret.score.den = 75

(***************************************************************************)
(* The factors other than the barriers                                     *)
(***************************************************************************)
\* a configured weight, or its default, in tenths
configured_weight(d, name) ==
    10 * dict_update(default_weights, scoring_weights(d))[name]

\* the contributions the claim gives the five factors, in tenths
claimed_state(profile, data, d) ==
    IF "product_state" \in DOMAIN profile
       /\ profile.product_state \in data.characteristics.product_state_compatibility
    THEN configured_weight(d, "product_state") ELSE 0

claimed_chemical(profile, data, d) ==
    IF with_defaults(profile).ph_level \in data.characteristics.ph_tolerance
    THEN configured_weight(d, "chemical_compatibility") ELSE 0

claimed_temperature(profile, data, d) ==
    IF with_defaults(profile).storage_temperature
           \in data.characteristics.temperature_range
    THEN configured_weight(d, "temperature_requirements") ELSE 0

claimed_cost(profile, data, d) ==
    LET cost_scoring ==
            dict_get(dict_get(d, "scoring_parameters", <<>>), "cost_scoring", <<>>)
        budget == with_defaults(profile).budget_range
    IN  IF budget \notin DOMAIN cost_scoring THEN 0
        ELSE IF data.characteristics.cost_category \notin DOMAIN cost_scoring[budget]
        THEN 0
        ELSE 10 * cost_scoring[budget][data.characteristics.cost_category]

flag(b) == IF b THEN 1 ELSE 0

claimed_sustainability(profile, data) ==
    IF "sustainability_priority" \in DOMAIN profile
       /\ profile.sustainability_priority = "Eco-focused"
    THEN 40 * flag(data.sustainability.recyclable)
         + 20 * flag(data.sustainability.pcr_available)
         + 20 * flag(data.sustainability.biodegradable)
    ELSE 40

\* the material of Scenario 1 of the specification
Scenario1Material ==
    [ name |-> "Scenario1_Material",
      data |->
        [ characteristics |->
            [ product_state_compatibility |-> { "Liquid" },
              oxygen_barrier |-> <<"L","o","w">>,
              moisture_barrier |-> <<"L","o","w">>,
              light_barrier |-> <<"L","o","w">>,
              ph_tolerance |-> { "Neutral" },
              cost_category |-> "Standard",
              temperature_range |-> { "Ambient" } ],
          sustainability |->
            [ recyclable |-> FALSE, pcr_available |-> FALSE, biodegradable |-> FALSE ] ] ]

\* C15: product state, chemical and temperature add their configured weight
\* on a match and 0 otherwise, cost adds cost_scoring[budget][cost_category]
\* when both keys exist and 0 otherwise, sustainability adds 4 * recyclable
\* + 2 * pcr_available + 2 * biodegradable under Eco-focused priority and 4
\* under any other; total is their sum with the barrier score and the rule
\* bonus, and Scenario 1 with the default weights gives 25 + 15 + cost + 10
\* + 4.
FactorContributions ==
    Scored =>
        LET data == scored_material.data
            locals == scored_locals
            cost == claimed_cost(user_inputs, data, db)
            claimed_total ==
                claimed_state(user_inputs, data, db)
                + claimed_chemical(user_inputs, data, db)
                + cost
                + claimed_temperature(user_inputs, data, db)
                + claimed_sustainability(user_inputs, data)
                + locals.barrier_score + locals.rule_bonuses
        IN  /\ locals.state_score = claimed_state(user_inputs, data, db)
            /\ locals.chem_score = claimed_chemical(user_inputs, data, db)
            /\ locals.temp_score = claimed_temperature(user_inputs, data, db)
            /\ locals.cost_score = cost
            /\ locals.sustain_score = claimed_sustainability(user_inputs, data)
            /\ ret.score = final_score(claimed_total,
                                       locals.max_possible_score)
            /\ (/\ user_inputs = Scenario1Profile
                /\ scoring_weights(db) = default_weights)
               => /\ ("Liquid" \in data.characteristics.product_state_compatibility
                      /\ "Neutral" \in data.characteristics.ph_tolerance
                      /\ "Ambient" \in data.characteristics.temperature_range)
                     => claimed_total - locals.rule_bonuses
                            = 250 + 150 + cost + 100 + 40
                  /\ score_locals(Scenario1Profile, Scenario1Material.name,
                                  Scenario1Material.data,
                                  dict_set(db, "recommendation_rules", <<>>))
                         .total_score
                       = 250 + 150
                         + claimed_cost(Scenario1Profile, Scenario1Material.data, db)
                         + 100 + 40

\* C15 witness: the profile of Scenario 1 on a can that holds liquids, with
\* the default weights and no rules: 25 + 15 + 12 + 10 + 4 of 90.
FactorContributionsWitness ==
    /\ Scored
    /\ user_inputs = Scenario1Profile
    /\ scoring_weights(db) = default_weights
    /\ scored_material = Aluminum_Can
    /\ catalog_rules = <<>>
    /\ scored_locals.total_score = 250 + 150 + 120 + 100 + 40
    /\ ret.score = [ num |-> 6600, den |-> 90 ]

(***************************************************************************)
(* The barrier score                                                       *)
(***************************************************************************)
str_upper(s) == [i \in DOMAIN s |-> upper_char(s[i])]

\* one lookup as the claim describes it, in tenths: 0 when the barrier type,
\* the sensitivity level or the barrier level is not in the table
claimed_lookup(profile, data, d, barrier_type) ==
    LET barrier_scoring ==
            dict_get(dict_get(d, "scoring_parameters", <<>>), "barrier_scoring", <<>>)
        sensitivity == with_defaults(profile)[sensitivity_key(barrier_type)]
        level == str_title(data.characteristics[barrier_key(barrier_type)])
    IN  IF barrier_type \notin DOMAIN barrier_scoring THEN 0
        ELSE IF sensitivity \notin DOMAIN barrier_scoring[barrier_type] THEN 0
        ELSE IF level \notin DOMAIN barrier_scoring[barrier_type][sensitivity] THEN 0
        ELSE 10 * barrier_scoring[barrier_type][sensitivity][level]

claimed_barrier(profile, data, d) ==
    claimed_lookup(profile, data, d, "oxygen")
    + claimed_lookup(profile, data, d, "moisture")
    + claimed_lookup(profile, data, d, "light")

\* the material with its three barrier levels rewritten by recase
recased(data, recase(_)) ==
    [data EXCEPT !.characteristics.oxygen_barrier = recase(@),
                 !.characteristics.moisture_barrier = recase(@),
                 !.characteristics.light_barrier = recase(@)]

\* C16: the barrier score is the sum over oxygen, moisture and light of the
\* table's entry for the profile's sensitivity and the material's level in
\* title case, an absent type, sensitivity or level counting 0; it enters
\* total whole, not clamped to the barrier_requirements weight; the same
\* levels written in upper, lower or title case score the same.
BarrierScoreIsLookupSum ==
    Scored =>
        LET data == scored_material.data
            locals == scored_locals
            claimed == claimed_barrier(user_inputs, data, db)
        IN  /\ locals.barrier_score = claimed
            /\ ret.score =
                   final_score(locals.state_score + locals.chem_score
                                   + locals.cost_score + locals.temp_score
                                   + locals.sustain_score + locals.rule_bonuses
                                   + claimed,
                               locals.max_possible_score)
            /\ barrier_factor(user_inputs, recased(data, str_upper), db)[1]
                   = locals.barrier_score
            /\ barrier_factor(user_inputs, recased(data, str_lower), db)[1]
                   = locals.barrier_score
            /\ barrier_factor(user_inputs, recased(data, str_title), db)[1]
                   = locals.barrier_score

\* C16 witness: the can, whose levels are written "HIGH", "high" and
\* "Excellent", under high sensitivities and the weight 20: 9 + 6 + 8.
BarrierScoreWitness ==
    /\ Scored
    /\ scored_material = Aluminum_Can
    /\ dict_get(user_inputs, "oxygen_sensitivity", "None") = "High"
    /\ configured_weight(db, "barrier_requirements") = 200
    /\ scored_locals.barrier_score = 230
    /\ ret.score = final_score(scored_locals.total_score, 90)

(***************************************************************************)
(* The final score                                                         *)
(***************************************************************************)
\* total / max_possible * 100 with total in tenths, for max_possible > 0
percentage(total, max_possible) == [ num |-> total * 10, den |-> max_possible ]

hundred == [ num |-> 100, den |-> 1 ]

all_weights_zero(d) ==
    \A n \in DOMAIN weight_names : configured_weight(d, weight_names[n]) = 0

\* C17: with max_possible_score > 0 the score is the smaller of 100 and
\* total / max_possible * 100, total being the six factors and the rule
\* bonus; with all six weights zero the call returns the score 0, whatever
\* total is.
FinalScoreIsClampedRatio ==
    (call.op = "calculate_packaging_score"
     /\ ~score_raises(user_inputs, scored_material.data)) =>
        LET locals == scored_locals
            total == locals.state_score + locals.barrier_score + locals.chem_score
                     + locals.cost_score + locals.temp_score + locals.sustain_score
                     + locals.rule_bonuses
            ratio == percentage(total, locals.max_possible_score)
        IN  /\ ret.error = "none"
            /\ locals.max_possible_score > 0 =>
                   /\ score_ge(hundred, ret.score)
                   /\ score_ge(ratio, ret.score)
                   /\ score_eq(ret.score, hundred) \/ score_eq(ret.score, ratio)
            /\ all_weights_zero(db) =>
                   /\ locals.max_possible_score = 0
                   /\ score_eq(ret.score, [ num |-> 0, den |-> 1 ])

\* C17 witness: a total above max_possible_score, rule bonus included, and
\* the score 100.
FinalScoreWitness ==
    /\ Scored
    /\ scored_locals.max_possible_score > 0
    /\ scored_locals.rule_bonuses > 0
    /\ scored_locals.total_score > 10 * scored_locals.max_possible_score
    /\ score_eq(ret.score, hundred)

\* the case of the zero weights: a total that is not zero, the score 0
FinalScoreZeroWeights ==
    /\ Scored
    /\ all_weights_zero(db)
    /\ scored_locals.total_score # 0
    /\ score_eq(ret.score, [ num |-> 0, den |-> 1 ])

(***************************************************************************)
(* scoring_details                                                         *)
(***************************************************************************)
\* the sub-factor a details line belongs to, in the order of the claim
line_factor(line) ==
    CASE line.text \in { "Product state compatibility: +",
                         "Product state incompatible: +0" } -> 1
      [] line.text \in { "Oxygen barrier: +", "Oxygen barrier: " } -> 2
      [] line.text \in { "Moisture barrier: +", "Moisture barrier: " } -> 3
      [] line.text \in { "Light barrier: +", "Light barrier: " } -> 4
      [] line.text \in { "Chemical compatibility: +",
                         "Chemical incompatibility: +0" } -> 5
      [] line.text \in { "Cost alignment: +", "Cost mismatch: " } -> 6
      [] line.text \in { "Temperature compatibility: +",
                         "Temperature incompatibility: +0" } -> 7
      [] line.text = "Sustainability match: +" -> 8
      [] line.text = "Rule bonuses: +" -> 9

RECURSIVE sum_of_points(_)
sum_of_points(details) ==
    IF details = <<>> THEN 0
    ELSE Head(details).points + sum_of_points(Tail(details))

\* C18 (as claimed): the details are in the fixed order, one line at most
\* for a sub-factor; product state, chemical, temperature and sustainability
\* always have their line; a rule bonus or penalty that is not zero has its
\* line; and the points of the lines add up to total.
DetailsAccountForTotal ==
    Scored =>
        LET details == ret.scoring_details
            locals == scored_locals
        IN  /\ \A i, j \in DOMAIN details :
                   i < j => line_factor(details[i]) < line_factor(details[j])
            /\ \A f \in { 1, 5, 7, 8 } :
                   \E i \in DOMAIN details : line_factor(details[i]) = f
            /\ locals.rule_bonuses # 0 =>
                   \E i \in DOMAIN details : line_factor(details[i]) = 9
            /\ sum_of_points(details) = locals.total_score

(***************************************************************************)
(* The reasons                                                             *)
(***************************************************************************)
\* the place of a kind of reason in the order of the claim
reason_rank(kind) ==
    CASE kind = "state" -> 1
      [] kind = "barrier" -> 2
      [] kind = "budget" -> 3
      [] kind = "sustainability" -> 4
      [] kind = "tier" -> 5
      [] kind = "pro" -> 6

reasons_of_kind(reasons, kind) == SelectSeq(reasons, LAMBDA r : r.kind = kind)

\* the barrier types the claim has praised: sensitivity exactly High, level
\* exactly Excellent or High
claimed_praised(profile, data) ==
    { t \in { "oxygen", "moisture", "light" } :
        /\ sensitivity_key(t) \in DOMAIN profile
        /\ profile[sensitivity_key(t)] = "High"
        /\ \/ data.characteristics[barrier_key(t)] = <<"E","x","c","e","l","l","e","n","t">>
           \/ data.characteristics[barrier_key(t)] = <<"H","i","g","h">> }

\* the tier remarks of the claim for a score
claimed_tier(score) ==
    IF score_at_least(score, 90) THEN << "Exceptional compatibility match" >>
    ELSE IF score_at_least(score, 75) THEN << "Excellent compatibility" >>
    ELSE IF score_at_least(score, 60) THEN << "Good compatibility" >>
    ELSE <<>>

\* what the claim says of one entry of the ranking
reasons_as_claimed(profile, entry) ==
    LET reasons == entry.reasons
        data == entry.data
        barrier == reasons_of_kind(reasons, "barrier")
        sustainability == reasons_of_kind(reasons, "sustainability")
        tier == reasons_of_kind(reasons, "tier")
        pro == reasons_of_kind(reasons, "pro")
        pros == dict_get(data, "pros", <<>>)
        eco == /\ "sustainability_priority" \in DOMAIN profile
               /\ profile.sustainability_priority = "Eco-focused"
    IN  /\ \A i, j \in DOMAIN reasons :
               i < j => /\ reason_rank(reasons[i].kind) <= reason_rank(reasons[j].kind)
                        /\ reasons[i].kind = reasons[j].kind
                               => reasons[i].kind = "pro"
        /\ (barrier # <<>>) <=> (claimed_praised(profile, data) # {})
        /\ \A i \in DOMAIN barrier :
               /\ { barrier[i].text[n] : n \in DOMAIN barrier[i].text }
                      = claimed_praised(profile, data)
               /\ Len(barrier[i].text) = Cardinality(claimed_praised(profile, data))
        /\ (sustainability # <<>>)
               <=> (eco /\ \E f \in required_sustainability : data.sustainability[f])
        /\ [i \in DOMAIN tier |-> tier[i].text[1]] = claimed_tier(entry.score)
        /\ Len(pro) = (IF Len(pros) < 2 THEN Len(pros) ELSE 2)
        /\ \A i \in DOMAIN pro : pro[i].text = << pros[i] >>

\* C19: the reasons of every entry come in the order state, barrier,
\* budget, sustainability, tier, pros, each of the first five at most once;
\* the barrier praise names exactly the types of sensitivity High whose
\* level is Excellent or High as written; the sustainability list is there
\* under Eco-focused priority with a true flag only; the tier remark is the
\* one of score >= 90, else >= 75, else >= 60, and none below 60; the pros
\* are the first min(2, n) entries of the material's pros in their order.
ReasonsAsClaimed ==
    Recommended =>
        \A j \in DOMAIN ret.recommendations :
            reasons_as_claimed(user_inputs, ret.recommendations[j])

\* C19 witness: the jar under the orange juice profile: state, barrier
\* (oxygen and moisture, not the low light barrier), budget, the tier of 90
\* and the first two of its three pros.
ReasonsWitness ==
    /\ Recommended
    /\ dict_get(user_inputs, "light_sensitivity", "None") = "High"
    /\ \E j \in DOMAIN ret.recommendations :
           LET entry == ret.recommendations[j]
           IN  /\ entry.material_name = "Glass_Jar"
               /\ [i \in DOMAIN entry.reasons |-> entry.reasons[i].kind]
                      = << "state", "barrier", "budget", "tier", "pro", "pro" >>
               /\ entry.reasons[2].text = << "oxygen", "moisture" >>
               /\ entry.reasons[4].text = << "Exceptional compatibility match" >>
               /\ entry.reasons[5].text = << "Inert" >>
               /\ entry.reasons[6].text = << "Premium look" >>

(***************************************************************************)
(* One running process: the script is run again on every interaction, and  *)
(* every run obtains the catalog through the memoised load_database        *)
(***************************************************************************)
\* the process has started and the first run has called load_database
InitSession ==
    /\ db_file \in { {}, { [EmptyCatalog EXCEPT !.products = HandEditedProducts] } }
    /\ cache = cached_load_database({}, db_file).cache
    /\ db = cached_load_database({}, db_file).value
    /\ user_inputs = <<>>
    /\ call = [ op |-> "main" ]
    /\ ret = NoneValue

\* main, up to db = load_database(): a rerun of the script
Main ==
    /\ db' = cached_load_database(cache, db_file).value
    /\ cache' = cached_load_database(cache, db_file).cache
    /\ call' = [ op |-> "main" ]
    /\ ret' = NoneValue
    /\ UNCHANGED <<user_inputs, db_file>>

\* a run shows one page on the catalog it loaded; a save ends in st.rerun()
\* and every other interaction starts the script again as well
NextSession ==
    \/ Main
    \/ call.op = "main" /\ SaveProduct
    \/ call.op = "main" /\ SaveProductExists
    \/ call.op = "main" /\ LookUpProduct

SpecSession == InitSession /\ [][NextSession]_vars

\* the product names in the catalog file
file_products(file) ==
    IF file = {} THEN {} ELSE DOMAIN (CHOOSE d \in file : TRUE).products

\* C20 (as claimed): the catalog file keeps every product it holds, so
\* every product saved so far, and the catalog of every rerun holds every
\* product of the file.
NoSavedProductLost ==
    [][/\ file_products(db_file) \subseteq file_products(db_file')
       /\ call'.op = "main" =>
              file_products(db_file') \subseteq DOMAIN db'.products]_vars

====
